---- MODULE Spec2Model ----
(***************************************************************************)
(* A model of the faff time ledger: the Log value and its start/stop       *)
(* operations, the start command's transition checks, the plan selection,  *)
(* the Workspace's read-modify-write of a day's log file, the intent       *)
(* editor, the cached plan lookups, the commands run on a log file edited  *)
(* by hand, the search for the .faff root and its creation, `timesheet     *)
(* compile`, the Workspace's sessions over several days and timezones,     *)
(* resolve_natural_date, Filter.from_string and the fuzzy_select menu.     *)
(***************************************************************************)
EXTENDS Integers, Sequences, FiniteSets, TLC

VARIABLES
    log,        \* the Log value the operations act on
    prev,       \* the Log value before the last call
    call,       \* the last call: operation, arguments and outcome
    now,        \* the clock, in ticks
    logFile,    \* the content of today's log file
    planFiles,  \* the plan files in .faff/plans
    got,        \* the last get_plans query and its result
    base,       \* the log file before the concurrent commands ran
    procs,      \* the concurrent commands: position, operation, what was read
    planDocs,   \* the intents of each plan file, as the intent editor reads them
    logDocs,    \* the sessions of each log file, as the intent editor reads them
    ed,         \* the runs of `intent edit`: how many, and the last one
    cache,      \* the results functools.cache holds in this process
    ans,        \* the last plan lookup of this process and its answer
    calls,      \* the number of Workspace calls this process has made
    fsys,       \* per directory: what it holds under the name .faff
    cwd,        \* the process's working directory
    found,      \* the last find_faff_root or initialise_repo call
    cfg,        \* `timesheet compile`: the compilers, the identities held
    run,        \* `timesheet compile`: where the command is, what it did
    conf,       \* the configured timezone, the system's, today's activities
    logFiles,   \* per date: the content of that day's log file
    wcall,      \* the last Workspace.start/stop_timeline_entry call
    nd,         \* the last resolve_natural_date call
    flt,        \* the last Filter.from_string call
    fz          \* fuzzy_select: its closure variables and the last key

logVars == <<log, prev, call>>
planVars == <<planFiles, got>>
wsVars == <<base, procs>>
intentVars == <<planDocs, logDocs, ed>>
actsVars == <<cache, ans, calls>>

\* The variables of the parts of the program added after the intent editor.
rootVars == <<fsys, cwd, found>>
compileVars == <<cfg, run>>
daysVars == <<conf, logFiles, wcall>>
moreVars == <<daysVars, nd, flt, fz>>
restVars == <<actsVars, rootVars, compileVars, moreVars>>

vars == <<logVars, now, logFile, planVars, wsVars, intentVars, restVars>>

(***************************************************************************)
(* Bounds of the model.                                                    *)
(***************************************************************************)
MaxTime == 2
MaxLen == 2

Times == 0..MaxTime
Activities == {"a1", "a2"}

\* Optional values: Python's None for a string, and for an instant.
None == "None"
NoEnd == -1
Notes == {None, "n1"}

(***************************************************************************)
(* faff/models/timeline_entry.py                                           *)
(***************************************************************************)
TimelineEntry(activity, start, end, note) ==
    [activity |-> activity, start |-> start, end |-> end, note |-> note]

stop_dropping_note(entry, stop_time) ==
    TimelineEntry(entry.activity, entry.start, stop_time, None)

stop(entry, stop_time) ==
    TimelineEntry(entry.activity, entry.start, stop_time, entry.note)

(***************************************************************************)
(* faff/models/log.py                                                      *)
(***************************************************************************)
Log(date, timezone, summary, timeline) ==
    [date |-> date, timezone |-> timezone, summary |-> summary,
     timeline |-> timeline]

Today == 1
EmptyLog == Log(Today, "UTC", <<>>, <<>>)

Last(s) == s[Len(s)]
Front(s) == SubSeq(s, 1, Len(s) - 1)

\* Optional[TimelineEntry] as a sequence of at most one entry.
active_timeline_entry(l) ==
    IF l.timeline = <<>> THEN <<>>
    ELSE IF Last(l.timeline).end = NoEnd THEN <<Last(l.timeline)>>
    ELSE <<>>

\* stop_active_timeline_entry raises ValueError exactly here.
stop_raises(l) == l.timeline = <<>>

stop_active_timeline_entry(l, stop_time) ==
    Log(l.date, l.timezone, l.summary,
        Front(l.timeline) \o <<stop(Last(l.timeline), stop_time)>>)

RECURSIVE start_timeline_entry(_, _, _, _)

start_without_stopping(l, activity, start, note) ==
    Log(l.date, l.timezone, l.summary,
        l.timeline \o <<TimelineEntry(activity, start, NoEnd, note)>>)

start_timeline_entry(l, activity, start, note) ==
    IF active_timeline_entry(l) # <<>>
    THEN start_timeline_entry(stop_active_timeline_entry(l, start),
                              activity, start, note)
    ELSE Log(l.date, l.timezone, l.summary,
             l.timeline \o <<TimelineEntry(activity, start, NoEnd, note)>>)

(***************************************************************************)
(* The Log operations called directly, with any timestamps.                *)
(***************************************************************************)
NoCall == [op |-> "none", mode |-> None, activity |-> None, t |-> 0,
           note |-> None, raised |-> FALSE]

NoFile == [exists |-> FALSE, doc |-> <<>>]

NoQuery == [date |-> 0, plans |-> <<>>]

NoProcs == <<>>

\* Nothing cached, no lookup made.
NoCache == [plans |-> <<>>, acts |-> <<>>, byid |-> <<>>]
NoAnswer == [op |-> "none", date |-> 0, id |-> None, plans |-> <<>>,
             value |-> <<>>, raised |-> FALSE]
ActsIdle == cache = NoCache /\ ans = NoAnswer /\ calls = 0

\* No directory tree looked at, no call made.
NoFind == [op |-> "none", path |-> <<>>, force |-> FALSE, raised |-> None,
           root |-> <<>>, before |-> <<>>]
RootIdle == fsys = <<>> /\ cwd = <<>> /\ found = NoFind

\* `timesheet compile` not run.
NoRun == [pc |-> "none", i |-> 0, j |-> 0, sheet |-> <<>>, signed |-> FALSE,
          written |-> <<>>, warnings |-> <<>>]
CompileIdle == cfg = <<>> /\ run = NoRun

\* No Workspace over several days, no date, filter or menu in use.
MoreIdle ==
    /\ conf = <<>> /\ logFiles = <<>> /\ wcall = <<>>
    /\ nd = <<>> /\ flt = <<>> /\ fz = <<>>

NoEdit == [n |-> 0, intent_id |-> <<>>, outcome |-> "none", exit |-> 0,
           editor |-> FALSE, typed |-> <<>>, asked |-> FALSE,
           retro |-> FALSE, wrote |-> {},
           prevPlan |-> <<>>, prevLogs |-> <<>>]

InitLog ==
    /\ ActsIdle
    /\ CompileIdle
    /\ RootIdle
    /\ MoreIdle
    /\ log = EmptyLog
    /\ prev = EmptyLog
    /\ call = NoCall
    /\ now = 0
    /\ logFile = NoFile
    /\ planFiles = {}
    /\ got = NoQuery
    /\ planDocs = <<>>
    /\ logDocs = <<>>
    /\ ed = NoEdit
    /\ base = NoFile
    /\ procs = NoProcs

LogStart(activity, t, note) ==
    /\ Len(log.timeline) < MaxLen
    /\ log' = start_timeline_entry(log, activity, t, note)
    /\ prev' = log
    /\ call' = [NoCall EXCEPT !.op = "start", !.activity = activity,
                               !.t = t, !.note = note]
    /\ UNCHANGED <<now, logFile, planVars, wsVars, intentVars, restVars>>

LogStop(t) ==
    /\ IF stop_raises(log)
       THEN /\ log' = log
            /\ call' = [NoCall EXCEPT !.op = "stop", !.t = t, !.raised = TRUE]
       ELSE /\ log' = stop_active_timeline_entry(log, t)
            /\ call' = [NoCall EXCEPT !.op = "stop", !.t = t]
    /\ prev' = log
    /\ UNCHANGED <<now, logFile, planVars, wsVars, intentVars, restVars>>

NextLog ==
    \/ \E a \in Activities, t \in Times, n \in Notes : LogStart(a, t, n)
    \/ \E t \in Times : LogStop(t)

SpecLog == InitLog /\ [][NextLog]_vars

(***************************************************************************)
(* Claims about the Log operations (SpecLog).                              *)
(***************************************************************************)

\* C1: after any sequence of start_timeline_entry and
\* stop_active_timeline_entry calls from the empty Log, only the last entry
\* of the timeline can have end = None (so at most one entry is open).
C1_OpenOnlyLast ==
    \A i \in 1..Len(log.timeline) :
        log.timeline[i].end = NoEnd => i = Len(log.timeline)

\* C1 witness: a start on an open Log has run, and the result has a closed
\* entry followed by the open one.
C1_Witness ==
    /\ call.op = "start"
    /\ active_timeline_entry(prev) # <<>>
    /\ Len(log.timeline) = 2
    /\ log.timeline[1].end # NoEnd
    /\ log.timeline[2].end = NoEnd

\* The precondition of the continue law: the last call was a start at t on
\* a Log whose last entry was open, with t >= that entry's start.
ContinueCase ==
    /\ call.op = "start"
    /\ active_timeline_entry(prev) # <<>>
    /\ call.t >= Last(prev.timeline).start

C3_StopWithoutActiveFails ==
    (call.op = "stop" /\ active_timeline_entry(prev) = <<>>) =>
        (call.raised /\ log = prev)

(***************************************************************************)
(* faff/core/log_formatter.py and Log.from_dict: the text of a log file.   *)
(* A file holds no text (<<>>) or one document; the document's instants    *)
(* are wall-clock minutes ("HH:mm"), an instant of the program is a tick.  *)
(***************************************************************************)
TicksPerMinute == 2

\* entry.start.format("YYYY-MM-DDTHH:mm"): the seconds are not written.
format_time(t) == t \div TicksPerMinute

\* pendulum.parse of "HH:mm": the first instant of that minute.
parse_time(m) == m * TicksPerMinute

InsertByStart(s, e) ==
    LET k == Cardinality({i \in 1..Len(s) : s[i].start <= e.start})
    IN  SubSeq(s, 1, k) \o <<e>> \o SubSeq(s, k + 1, Len(s))

RECURSIVE SortByStart(_)
\* sorted(log.timeline, key=lambda entry: entry.start), a stable sort.
SortByStart(s) ==
    IF s = <<>> THEN <<>>
    ELSE InsertByStart(SortByStart(Front(s)), Last(s))

format_entry(entry) ==
    [activity |-> entry.activity,
     start |-> format_time(entry.start),
     end |-> IF entry.end # NoEnd THEN format_time(entry.end) ELSE NoEnd,
     note |-> IF entry.note # None /\ entry.note # "" THEN entry.note
              ELSE None]

format_log(l) ==
    LET sorted == SortByStart(l.timeline)
    IN  <<[date |-> l.date, timezone |-> l.timezone, summary |-> l.summary,
           timeline |-> [i \in 1..Len(sorted) |-> format_entry(sorted[i])]]>>

\* TimelineEntry.from_dict: the activity is looked up in the day's plans.
entry_from_dict(data, activities) ==
    TimelineEntry(IF data.activity \in activities THEN data.activity ELSE None,
                  parse_time(data.start),
                  IF data.end # NoEnd THEN parse_time(data.end) ELSE NoEnd,
                  data.note)

log_from_dict(doc, activities) ==
    Log(doc[1].date, doc[1].timezone, doc[1].summary,
        [i \in 1..Len(doc[1].timeline) |->
            entry_from_dict(doc[1].timeline[i], activities)])

(***************************************************************************)
(* faff/core/workspace.py: get_log and write_log.                          *)
(***************************************************************************)
\* Log.from_dict raises KeyError on a file with no text (no "date" key).
get_log_raises(file) == file.exists /\ file.doc = <<>>

get_log(file, activities) ==
    IF file.exists THEN log_from_dict(file.doc, activities) ELSE EmptyLog

\* The file once write_log has returned.
written(l) == [exists |-> TRUE, doc |-> format_log(l)]

(***************************************************************************)
(* faff_cli/start.py: the start command, and the stop command, run one at  *)
(* a time against today's log file under a clock that only advances.       *)
(***************************************************************************)
MaxNow == 3

Instants == 0..MaxNow

\* The checks of --since mode (start.py lines 135-156): TRUE when the
\* command exits with code 1.
since_rejected_without_conflict_check(l, start_time, clock) ==
    start_time > clock

since_rejected_unless_active(l, start_time, clock) ==
    \/ start_time > clock
    \/ /\ l.timeline # <<>>
       /\ Last(l.timeline).end # NoEnd
       /\ start_time < Last(l.timeline).end

since_rejected(l, start_time, clock) ==
    \/ start_time > clock
    \/ /\ l.timeline # <<>>
       /\ IF Last(l.timeline).end = NoEnd
          THEN start_time < Last(l.timeline).start
          ELSE start_time < Last(l.timeline).end

\* The checks of --continue mode (start.py lines 115-127).
continue_rejected(l) ==
    \/ l.timeline = <<>>
    \/ Last(l.timeline).end = NoEnd

InitCli ==
    /\ ActsIdle
    /\ CompileIdle
    /\ RootIdle
    /\ MoreIdle
    /\ log = EmptyLog
    /\ prev = EmptyLog
    /\ call = NoCall
    /\ now = 0
    /\ logFile = NoFile
    /\ planFiles = {}
    /\ got = NoQuery
    /\ planDocs = <<>>
    /\ logDocs = <<>>
    /\ ed = NoEdit
    /\ base = NoFile
    /\ procs = NoProcs

Tick ==
    /\ now < MaxNow
    /\ now' = now + 1
    /\ UNCHANGED <<logVars, logFile, planVars, wsVars, intentVars, restVars>>

\* One run of the start command; mode is "since", "continue" or "now".
CmdStart(mode, since, intent, note) ==
    LET l == get_log(logFile, Activities)
        rejected == CASE mode = "since" -> since_rejected(l, since, now)
                      [] mode = "continue" -> continue_rejected(l)
                      [] OTHER -> FALSE
        start_time == CASE mode = "since" -> since
                        [] mode = "continue" /\ ~rejected ->
                               Last(l.timeline).end
                        [] OTHER -> now
        this == [NoCall EXCEPT !.op = "start", !.mode = mode,
                               !.activity = intent, !.t = start_time,
                               !.note = note]
    IN  /\ Len(l.timeline) < MaxLen
        /\ prev' = l
        /\ IF rejected
           THEN /\ call' = [this EXCEPT !.raised = TRUE]
                /\ UNCHANGED <<log, logFile>>
           ELSE /\ call' = this
                /\ log' = start_timeline_entry(l, intent, start_time, note)
                /\ logFile' = written(log')
        /\ UNCHANGED <<now, planVars, wsVars, intentVars, restVars>>

\* Workspace.stop_timeline_entry: stops the open session at now, if any.
CmdStop ==
    LET l == get_log(logFile, Activities)
        this == [NoCall EXCEPT !.op = "stop", !.t = now]
    IN  /\ prev' = l
        /\ IF active_timeline_entry(l) # <<>>
           THEN /\ call' = this
                /\ log' = stop_active_timeline_entry(l, now)
                /\ logFile' = written(log')
           ELSE /\ call' = [this EXCEPT !.raised = TRUE]
                /\ UNCHANGED <<log, logFile>>
        /\ UNCHANGED <<now, planVars, wsVars, intentVars, restVars>>

NextCli ==
    \/ Tick
    \/ \E t \in Instants, i \in Activities, n \in Notes :
           CmdStart("since", t, i, n)
    \/ \E i \in Activities, n \in Notes : CmdStart("continue", 0, i, n)
    \/ \E i \in Activities, n \in Notes : CmdStart("now", 0, i, n)
    \/ CmdStop

SpecCli == InitCli /\ [][NextCli]_vars

(***************************************************************************)
(* Claims about the start and stop commands (SpecCli).                     *)
(***************************************************************************)
SortedByStart(tl) ==
    \A i, j \in 1..Len(tl) : i < j => tl[i].start <= tl[j].start

StrictlySortedByStart(tl) ==
    \A i, j \in 1..Len(tl) : i < j => tl[i].start < tl[j].start

MaxDate == 3
MaxFiles == 3

Dates == 1..MaxDate
Sources == {"local", "jira"}

\* valid_until: Optional[pendulum.Date] = None
Unbounded == 0

Plan(source, valid_from, valid_until) ==
    [source |-> source, valid_from |-> valid_from,
     valid_until |-> valid_until]

\* FileSystem.plan_files: per source, the file with the greatest file date
\* that is not after the query date.
plan_files(files, date) ==
    {f \in files :
        /\ f.valid_from <= date
        /\ \A g \in files :
               (g.source = f.source /\ g.valid_from <= date)
                   => g.valid_from <= f.valid_from}

\* The validity filter of get_plans (workspace.py lines 79-82).
valid_on(plan, date) ==
    /\ ~(plan.valid_from > date)
    /\ ~(plan.valid_until # Unbounded /\ plan.valid_until < date)

\* Workspace.get_plans: a map from source to the plan kept for it.
get_plans(files, date) ==
    LET kept == {f \in plan_files(files, date) : valid_on(f, date)}
        newest == {f \in kept :
                      \A g \in kept : g.source = f.source
                                          => g.valid_from <= f.valid_from}
    IN  [src \in {f.source : f \in newest} |->
            CHOOSE f \in newest : f.source = src]

InitPlans ==
    /\ ActsIdle
    /\ CompileIdle
    /\ RootIdle
    /\ MoreIdle
    /\ log = EmptyLog
    /\ prev = EmptyLog
    /\ call = NoCall
    /\ now = 0
    /\ logFile = NoFile
    /\ planFiles = {}
    /\ got = NoQuery
    /\ planDocs = <<>>
    /\ logDocs = <<>>
    /\ ed = NoEdit
    /\ base = NoFile
    /\ procs = NoProcs

\* Workspace.write_plan: the file of (source, valid_from) is (re)written.
WritePlan(source, valid_from, valid_until) ==
    LET others == {f \in planFiles :
                      ~(f.source = source /\ f.valid_from = valid_from)}
    IN  /\ valid_until = Unbounded \/ valid_from <= valid_until
        /\ Cardinality(others) < MaxFiles
        /\ planFiles' = others \cup {Plan(source, valid_from, valid_until)}
        /\ got' = NoQuery
        /\ UNCHANGED <<logVars, now, logFile, wsVars, intentVars, restVars>>

\* A fresh process asks for the plans valid on a date; its answer is held
\* until the plan files change.
GetPlans(date) ==
    /\ got' = [date |-> date, plans |-> get_plans(planFiles, date)]
    /\ UNCHANGED <<logVars, now, logFile, planFiles, wsVars, intentVars, restVars>>

NextPlans ==
    \/ \E src \in Sources, from \in Dates, until \in Dates \cup {Unbounded} :
           WritePlan(src, from, until)
    \/ \E date \in Dates : GetPlans(date)

SpecPlans == InitPlans /\ [][NextPlans]_vars

(***************************************************************************)
(* Claims about plan selection (SpecPlans).                                *)
(***************************************************************************)
\* The plans of a source that satisfy the validity predicates on a date.
ValidPlansOf(files, src, date) ==
    {f \in files :
        /\ f.source = src
        /\ f.valid_from <= date
        /\ (f.valid_until = Unbounded \/ f.valid_until >= date)}

\* C5 (as claimed): get_plans(D) maps every source S to the plan with the
\* greatest valid_from among the plans of S valid on D, and S is absent
\* only when no plan of S is valid on D.
C5_PlanSelection ==
    got.date \in Dates =>
        LET result == got.plans
        IN  \A src \in Sources :
                LET valid == ValidPlansOf(planFiles, src, got.date)
                IN  IF valid = {}
                    THEN src \notin DOMAIN result
                    ELSE /\ src \in DOMAIN result
                         /\ result[src] \in valid
                         /\ \A f \in valid :
                                f.valid_from <= result[src].valid_from

(***************************************************************************)
(* faff/core/workspace.py: two processes each run start_timeline_entry or  *)
(* stop_timeline_entry against today's log file. The code takes no lock;   *)
(* write_log opens the file with mode "w" (which empties it) and then      *)
(* writes the text. A process may be killed at any point.                  *)
(***************************************************************************)
Procs == {"p1", "p2"}

Ops == [op : {"start"}, activity : Activities, note : Notes]
           \cup [op : {"stop"}, activity : {None}, note : {None}]

OneOpen == Log(Today, "UTC", <<>>, <<TimelineEntry("a1", 0, NoEnd, None)>>)
OneClosed == Log(Today, "UTC", <<>>, <<TimelineEntry("a1", 0, 0, None)>>)

\* Log files an earlier start or stop leaves behind.
BaseFiles == {NoFile, written(OneOpen), written(OneClosed)}

Proc(pc, o, t, l) == [pc |-> pc, o |-> o, t |-> t, l |-> l]

InitWs ==
    /\ ActsIdle
    /\ CompileIdle
    /\ RootIdle
    /\ MoreIdle
    /\ log = EmptyLog
    /\ prev = EmptyLog
    /\ call = NoCall
    /\ now = 0
    /\ planFiles = {}
    /\ got = NoQuery
    /\ planDocs = <<>>
    /\ logDocs = <<>>
    /\ ed = NoEdit
    /\ base \in BaseFiles
    /\ logFile = base
    /\ \E os \in [Procs -> Ops] :
           procs = [p \in Procs |-> Proc("ready", os[p], 0, EmptyLog)]

\* The Log a command writes, given the Log it read and the time it took.
\* start_timeline_entry (workspace.py lines 117-128) and
\* stop_timeline_entry (lines 135-141).
new_log(o, l, t) ==
    IF o.op = "start" THEN start_timeline_entry(l, o.activity, t, o.note)
    ELSE stop_active_timeline_entry(l, t)

\* stop_timeline_entry writes nothing when no session is open.
writes_nothing(o, l) == o.op = "stop" /\ active_timeline_entry(l) = <<>>

\* get_log(today) and now(): the command reads the file and the clock.
WsRead(p) ==
    /\ procs[p].pc = "ready"
    /\ IF get_log_raises(logFile)
       THEN procs' = [procs EXCEPT ![p].pc = "failed"]
       ELSE LET l == get_log(logFile, Activities)
            IN  procs' = [procs EXCEPT
                    ![p] = Proc(IF writes_nothing(procs[p].o, l)
                                THEN "done" ELSE "read",
                                procs[p].o, now, l)]
    /\ UNCHANGED <<logVars, now, logFile, planVars, base, intentVars, restVars>>

\* write_log: open(log_filename, "w") leaves the file with no text.
WsOpen(p) ==
    /\ procs[p].pc = "read"
    /\ procs' = [procs EXCEPT ![p].pc = "opened"]
    /\ logFile' = [exists |-> TRUE, doc |-> <<>>]
    /\ UNCHANGED <<logVars, now, planVars, base, intentVars, restVars>>

\* write_log: f.write(log_contents), and the file is closed.
WsWrite(p) ==
    /\ procs[p].pc = "opened"
    /\ procs' = [procs EXCEPT ![p].pc = "done"]
    /\ logFile' = written(new_log(procs[p].o, procs[p].l, procs[p].t))
    /\ UNCHANGED <<logVars, now, planVars, base, intentVars, restVars>>

\* The process is killed (Ctrl-C, power loss) before it has finished.
WsCrash(p) ==
    /\ procs[p].pc \in {"read", "opened"}
    /\ procs' = [procs EXCEPT ![p].pc = "crashed"]
    /\ UNCHANGED <<logVars, now, logFile, planVars, base, intentVars, restVars>>

WsTick ==
    /\ now < MaxNow
    /\ now' = now + 1
    /\ UNCHANGED <<logVars, logFile, planVars, wsVars, intentVars, restVars>>

NextWs ==
    \/ WsTick
    \/ \E p \in Procs : WsRead(p)
    \/ \E p \in Procs : WsOpen(p)
    \/ \E p \in Procs : WsWrite(p)
    \/ \E p \in Procs : WsCrash(p)

SpecWs == InitWs /\ [][NextWs]_vars

(***************************************************************************)
(* Claims about concurrent commands and the write of a file (SpecWs).      *)
(***************************************************************************)
\* The file after process p's command ran alone on `file`, with the clock
\* value p took.
RunAlone(file, p) ==
    LET l == get_log(file, Activities)
    IN  IF writes_nothing(procs[p].o, l) THEN file
        ELSE written(new_log(procs[p].o, l, procs[p].t))

BothDone == \A p \in Procs : procs[p].pc = "done"

\* C6 (as claimed): when two concurrent start/stop commands have both
\* completed, the log file is what running them one after the other, in
\* some order, would have left (no lost update).
C6_Serializes ==
    BothDone =>
        \E p, q \in Procs :
            /\ p # q
            /\ logFile = RunAlone(RunAlone(base, p), q)

\* C7 (as claimed): no reader and no crash ever finds the log file empty or
\* partially written: it always holds a complete document.
C7_WriteAtomic == logFile.exists => logFile.doc # <<>>

(***************************************************************************)
(* faff_cli/intent.py: `intent edit`. An intent_id "<source>:<slug>" is    *)
(* the pair <<source, slug>>. A plan or log file is what toml.load gives:  *)
(* its intents or sessions in order, a key with value None being a key     *)
(* toml.dump does not write.                                               *)
(***************************************************************************)
MaxEdits == 1
MaxTrackers == 2

LocalId == <<"local", "i1">>
OtherLocalId == <<"local", "i2">>
RemoteId == <<"jira", "P7">>
IntentIds == {LocalId, OtherLocalId, RemoteId}
TrackerIds == {"t1", "t2"}

\* Lists of distinct tracker ids.
TrackerLists ==
    UNION {{t \in [1..n -> TrackerIds] :
               \A i, j \in 1..n : i # j => t[i] # t[j]} : n \in 0..MaxTrackers}

Intent(intent_id, alias, role, objective, action, subject, trackers) ==
    [intent_id |-> intent_id, alias |-> alias, role |-> role,
     objective |-> objective, action |-> action, subject |-> subject,
     trackers |-> trackers]

\* What the user can leave in the editor (toml_to_intent of the text).
TypedIntents ==
    [intent_id : {LocalId, OtherLocalId}, alias : {"A", "B"},
     role : {None, "r1"}, objective : {None, "o1"}, action : {None, "c1"},
     subject : {None, "s1"}, trackers : TrackerLists]

\* A TOML value of the key "trackers": a list, or a single string.
TomlList(items) == [str |-> FALSE, items |-> items]
TomlStr(string) == [str |-> TRUE, items |-> <<string>>]

any_prefix(intent_id) == TRUE

\* original_intent.intent_id.startswith("local:")
startswith_local(intent_id) == intent_id[1] = "local"

Matches(seq, intent_id) == {i \in 1..Len(seq) : seq[i].intent_id = intent_id}

FirstMatch(seq, intent_id) ==
    CHOOSE i \in Matches(seq, intent_id) :
        \A j \in Matches(seq, intent_id) : i <= j

\* find_intent_in_plans: the plan files that hold the id; glob's order
\* decides which of them is returned.
find_intent_in_plans(plans, intent_id) ==
    {f \in DOMAIN plans : Matches(plans[f], intent_id) # {}}

\* find_logs_using_intent: the log files with at least one such session.
find_logs_using_intent(logs, intent_id) ==
    {f \in DOMAIN logs : Matches(logs[f], intent_id) # {}}

\* update_intent_in_log: the sessions of one log file after the update.
update_intent_in_log(sessions, intent_id, updated_intent) ==
    [i \in 1..Len(sessions) |->
        IF sessions[i].intent_id = intent_id
        THEN [sessions[i] EXCEPT
                 !.alias = updated_intent.alias,
                 !.role = updated_intent.role,
                 !.objective = updated_intent.objective,
                 !.action = updated_intent.action,
                 !.subject = updated_intent.subject,
                 !.trackers = IF updated_intent.trackers # <<>>
                              THEN TomlStr(updated_intent.trackers[1])
                              ELSE TomlStr("")]
        ELSE sessions[i]]

\* update_intent_in_log opens the log file for writing (line 136).
log_rewritten(sessions, intent_id) == Matches(sessions, intent_id) # {}

retro_never_asked(using, retro) == FALSE

\* The run ends at "Apply changes retroactively?" (intent.py lines 235-249):
\* sessions were found and the caller did not confirm.
retro_declined(using, retro) == using # {} /\ ~retro

\* The plan file's intents after the edit (intent.py lines 258-274).
update_plan(intents, intent_id, updated_intent) ==
    [intents EXCEPT ![FirstMatch(intents, intent_id)] = updated_intent]

\* A session as the log writer stores it: the id and a snapshot.
SessionOf(intent) ==
    [intent EXCEPT !.trackers = TomlList(intent.trackers)]

LocalIntent == Intent(LocalId, "A", "r1", "o1", None, None, <<"t1">>)
RemoteIntent == Intent(RemoteId, "J", None, "o1", "c1", None, <<"t2">>)

Plans0 == [f \in {"local.20250101", "jira.20250101"} |->
              IF f = "local.20250101" THEN <<LocalIntent>>
              ELSE <<RemoteIntent>>]

\* Two days' logs with sessions of the local intent, or with none.
LogsUsing == [f \in {"2025-01-15", "2025-01-16"} |->
                 IF f = "2025-01-15"
                 THEN <<SessionOf(LocalIntent), SessionOf(RemoteIntent)>>
                 ELSE <<SessionOf(LocalIntent)>>]
LogsNotUsing == [f \in {"2025-01-15", "2025-01-16"} |->
                    IF f = "2025-01-15" THEN <<SessionOf(RemoteIntent)>>
                    ELSE <<>>]

InitIntent ==
    /\ ActsIdle
    /\ CompileIdle
    /\ RootIdle
    /\ MoreIdle
    /\ log = EmptyLog
    /\ prev = EmptyLog
    /\ call = NoCall
    /\ now = 0
    /\ logFile = NoFile
    /\ planFiles = {}
    /\ got = NoQuery
    /\ base = NoFile
    /\ procs = NoProcs
    /\ planDocs = Plans0
    /\ logDocs \in {LogsUsing, LogsNotUsing}
    /\ ed = NoEdit

\* The end of a run that writes no file.
Leave(intent_id, outcome, exit, editor, typed, asked) ==
    /\ ed' = [n |-> ed.n + 1, intent_id |-> intent_id, outcome |-> outcome,
              exit |-> exit, editor |-> editor, typed |-> typed,
              asked |-> asked, retro |-> FALSE, wrote |-> {},
              prevPlan |-> planDocs, prevLogs |-> logDocs]
    /\ UNCHANGED <<planDocs, logDocs>>

\* One run of `intent edit <intent_id>`: `changed` is whether the user
\* changed the text in the editor, `typed` what the text parses to,
\* `apply` and `retro` the answers to the two confirmations. The run's
\* record keeps the answer given to the second one (retro) and the log files
\* opened for writing (wrote).
Edit(intent_id, changed, typed, apply, retro) ==
    /\ ed.n < MaxEdits
    /\ UNCHANGED <<logVars, now, logFile, planVars, wsVars, restVars>>
    /\ IF find_intent_in_plans(planDocs, intent_id) = {}
       THEN Leave(intent_id, "not_found", 1, FALSE, <<>>, FALSE)
       ELSE \E plan_file \in find_intent_in_plans(planDocs, intent_id) :
         LET original == planDocs[plan_file][
                             FirstMatch(planDocs[plan_file], intent_id)]
             using == find_logs_using_intent(logDocs, original.intent_id)
         IN  IF ~startswith_local(original.intent_id)
             THEN Leave(intent_id, "remote", 1, FALSE, <<>>, FALSE)
             ELSE IF ~changed
             THEN Leave(intent_id, "no_changes", 0, TRUE, <<>>, FALSE)
             ELSE IF ~apply
             THEN Leave(intent_id, "cancelled", 0, TRUE, <<>>, FALSE)
             ELSE IF retro_declined(using, retro)
             THEN Leave(intent_id, "declined", 0, TRUE, typed, TRUE)
             ELSE /\ planDocs' =
                        [planDocs EXCEPT ![plan_file] =
                            update_plan(@, original.intent_id, typed)]
                  /\ logDocs' =
                        [f \in DOMAIN logDocs |->
                            IF f \in using
                            THEN update_intent_in_log(
                                     logDocs[f], original.intent_id, typed)
                            ELSE logDocs[f]]
                  /\ ed' = [n |-> ed.n + 1, intent_id |-> intent_id,
                            outcome |-> "updated", exit |-> 0,
                            editor |-> TRUE, typed |-> typed,
                            asked |-> using # {},
                            retro |-> using # {} /\ retro,
                            wrote |-> {f \in using :
                                log_rewritten(logDocs[f],
                                              original.intent_id)},
                            prevPlan |-> planDocs, prevLogs |-> logDocs]

\* The user's ways through the prompts: leave the text as it is, or change
\* it and answer the confirmations.
NextIntent ==
    /\ ed.n < MaxEdits
    /\ \E intent_id \in IntentIds :
           \/ Edit(intent_id, FALSE, <<>>, FALSE, FALSE)
           \/ \E typed \in TypedIntents :
                  Edit(intent_id, TRUE, typed, FALSE, FALSE)
           \/ \E typed \in TypedIntents :
                  Edit(intent_id, TRUE, typed, TRUE, FALSE)
           \/ \E typed \in TypedIntents :
                  Edit(intent_id, TRUE, typed, TRUE, TRUE)

SpecIntent == InitIntent /\ [][NextIntent]_vars

(***************************************************************************)
(* Claims about the intent editor (SpecIntent).                            *)
(***************************************************************************)
\* The trackers a session carries: a single string stands for a list of
\* one, the empty string for none.
TrackersOf(value) ==
    IF value.str /\ value.items = <<"">> THEN <<>> ELSE value.items

RetroactiveEditDone == ed.outcome = "updated" /\ ed.asked

\* C8 (as claimed): after a confirmed retroactive edit, every session with
\* the edited id carries the updated role, objective, action, subject and
\* the complete trackers list, and every other session is unchanged.
C8_RetroactiveComplete ==
    RetroactiveEditDone =>
        \A f \in DOMAIN logDocs : \A i \in 1..Len(logDocs[f]) :
            LET session == logDocs[f][i]
            IN  IF session.intent_id = ed.intent_id
                THEN /\ session.role = ed.typed.role
                     /\ session.objective = ed.typed.objective
                     /\ session.action = ed.typed.action
                     /\ session.subject = ed.typed.subject
                     /\ TrackersOf(session.trackers) = ed.typed.trackers
                ELSE session = ed.prevLogs[f][i]

\* C9: `intent edit` on an id that does not start with "local:" exits with
\* code 1 before the editor is opened and writes no plan and no log file.
C9_RemoteImmutable ==
    (ed.n > 0 /\ ed.intent_id[1] # "local") =>
        /\ ed.exit = 1
        /\ ~ed.editor
        /\ planDocs = ed.prevPlan
        /\ logDocs = ed.prevLogs

\* C9 witness: the edit of the remote intent found it in its plan and
\* refused.
C9_Witness ==
    /\ ed.outcome = "remote"
    /\ ed.intent_id = RemoteId
    /\ Matches(planDocs["jira.20250101"], RemoteId) # {}

\* C10 (as claimed): when sessions of the intent exist and the caller
\* declines the retroactive update, the plan file still gets the updated
\* intent and no log file changes.
C10_DeclinedUpdatesPlanOnly ==
    (ed.n > 0 /\ ed.asked /\ ed.outcome = "declined") =>
        /\ \E f \in DOMAIN planDocs : \E i \in 1..Len(planDocs[f]) :
               planDocs[f][i] = ed.typed
        /\ logDocs = ed.prevLogs

\* C11: `intent edit` opens a log file for writing only when the scan found
\* sessions with the edited id in that file and the caller confirmed "Apply
\* changes retroactively?"; every other log file, and every log file on
\* every other path, keeps its content.
C11_LogsRewrittenOnlyWhenConfirmed ==
    ed.n > 0 =>
        /\ ed.wrote # {} =>
               /\ ed.retro
               /\ \A f \in ed.wrote :
                      \E i \in 1..Len(ed.prevLogs[f]) :
                          ed.prevLogs[f][i].intent_id = ed.intent_id
        /\ \A f \in DOMAIN logDocs :
               f \notin ed.wrote => logDocs[f] = ed.prevLogs[f]

\* C11 witness: a confirmed retroactive edit rewrote the two log files with
\* sessions of the intent, and a session in them changed.
C11_Witness ==
    /\ ed.outcome = "updated"
    /\ ed.retro
    /\ ed.wrote = {"2025-01-15", "2025-01-16"}
    /\ logDocs # ed.prevLogs

(***************************************************************************)
(* faff/core/workspace.py: the plan lookups of one process. get_plans,     *)
(* get_activities and get_plan_by_activity_id are wrapped in               *)
(* functools.cache, which keeps each result, by arguments, for the rest of *)
(* the process; write_plan stores what a source's plugin pulled. A dict is *)
(* a function from its keys.                                               *)
(***************************************************************************)
\* functools.cache: the result is stored under the call's arguments.
Put0(memo, key, value) ==
    [k \in DOMAIN memo \cup {key} |-> IF k = key THEN value ELSE memo[k]]

MaxCalls == 3

Activity(id, name) == [id |-> id, name |-> name]

ActivityIds == {"x", "y"}

\* What a source's pull_plan can return for a day: the plan's activities.
Pulled == {<<>>, <<Activity("x", "v1")>>, <<Activity("x", "v2")>>,
           <<Activity("y", "v1")>>}

\* The days a plan is pulled for, and asked for.
PullDates == {1, 2}

PulledPlan(source, date, activities) ==
    [source |-> source, valid_from |-> date, valid_until |-> Unbounded,
     activities |-> activities]

\* The orders in which the values of a dict can come: the order its keys
\* were inserted in, which for get_plans is the order of glob.
Orders(keys) ==
    {o \in [1..Cardinality(keys) -> keys] :
        \A i, j \in 1..Cardinality(keys) : i # j => o[i] # o[j]}

\* dict[activity.id] = activity
Put(dict, activity) ==
    [k \in DOMAIN dict \cup {activity.id} |->
        IF k = activity.id THEN activity ELSE dict[k]]

RECURSIVE PutAll(_, _)
PutAll(dict, activities) ==
    IF activities = <<>> THEN dict
    ELSE Put(PutAll(dict, Front(activities)), Last(activities))

RECURSIVE get_activities(_, _)
\* {activity.id: activity for plan in plans for activity in plan.activities}
\* with the plans taken in `order`: a later entry replaces an earlier one
\* of the same id.
get_activities(plans, order) ==
    IF order = <<>> THEN <<>>
    ELSE PutAll(get_activities(plans, Front(order)),
                plans[Last(order)].activities)

has_activity(plan, activity_id) ==
    \E i \in 1..Len(plan.activities) : plan.activities[i].id = activity_id

\* get_plan_by_activity_id raises ValueError exactly here.
plan_by_activity_id_raises(plans, activity_id) ==
    \A src \in DOMAIN plans : ~has_activity(plans[src], activity_id)

\* get_plan_by_activity_id: the first plan, in `order`, with the activity.
get_plan_by_activity_id(plans, order, activity_id) ==
    LET hits == {i \in 1..Len(order) :
                    has_activity(plans[order[i]], activity_id)}
    IN  plans[order[CHOOSE i \in hits : \A j \in hits : i <= j]]

InitActs ==
    /\ CompileIdle
    /\ RootIdle
    /\ MoreIdle
    /\ log = EmptyLog
    /\ prev = EmptyLog
    /\ call = NoCall
    /\ now = 0
    /\ logFile = NoFile
    /\ planFiles = {}
    /\ got = NoQuery
    /\ planDocs = <<>>
    /\ logDocs = <<>>
    /\ ed = NoEdit
    /\ base = NoFile
    /\ procs = NoProcs
    /\ cache = NoCache
    /\ ans = NoAnswer
    /\ calls = 0

\* Everything but the plan files, the cache and the last answer.
actsFrame ==
    <<logVars, now, logFile, got, wsVars, intentVars, rootVars, compileVars,
      moreVars>>

\* Workspace.write_plan: the plan pulled for `date` replaces the file of
\* (source, date). The cache is not touched.
ActsWritePlan(source, date, activities) ==
    /\ calls < MaxCalls
    /\ calls' = calls + 1
    /\ planFiles' = {f \in planFiles :
                        ~(f.source = source /\ f.valid_from = date)}
                        \cup {PulledPlan(source, date, activities)}
    /\ ans' = NoAnswer
    /\ UNCHANGED <<cache, actsFrame>>

\* The plans a call of Workspace.get_plans(date) returns, given the cache.
cached_plans(date) ==
    IF date \in DOMAIN cache.plans THEN cache.plans[date]
    ELSE get_plans(planFiles, date)

\* Workspace.get_plans(date), called from a command.
ActsGetPlans(date) ==
    LET plans == cached_plans(date)
    IN  /\ calls < MaxCalls
        /\ calls' = calls + 1
        /\ cache' = [cache EXCEPT !.plans = Put0(@, date, plans)]
        /\ ans' = [NoAnswer EXCEPT !.op = "get_plans", !.date = date,
                                    !.plans = plans, !.value = plans]
        /\ UNCHANGED <<planFiles, actsFrame>>

\* Workspace.get_activities(date), called from a command.
ActsGetActivities(date, order) ==
    LET plans == cached_plans(date)
        value == IF date \in DOMAIN cache.acts THEN cache.acts[date]
                 ELSE get_activities(plans, order)
    IN  /\ calls < MaxCalls
        /\ calls' = calls + 1
        /\ order \in Orders(DOMAIN plans)
        /\ cache' = IF date \in DOMAIN cache.acts THEN cache
                     ELSE [cache EXCEPT !.plans = Put0(@, date, plans),
                                        !.acts = Put0(@, date, value)]
        /\ ans' = [NoAnswer EXCEPT !.op = "get_activities", !.date = date,
                                    !.plans = plans, !.value = value]
        /\ UNCHANGED <<planFiles, actsFrame>>

\* Workspace.get_plan_by_activity_id(activity_id, date), called from a
\* command; an exception is not cached.
ActsGetPlanByActivityId(activity_id, date, order) ==
    LET key == <<activity_id, date>>
        plans == cached_plans(date)
        this == [NoAnswer EXCEPT !.op = "get_plan_by_activity_id",
                                 !.date = date, !.id = activity_id,
                                 !.plans = plans]
    IN  /\ calls < MaxCalls
        /\ calls' = calls + 1
        /\ order \in Orders(DOMAIN plans)
        /\ IF key \in DOMAIN cache.byid
           THEN /\ ans' = [this EXCEPT !.value = cache.byid[key]]
                /\ cache' = cache
           ELSE IF plan_by_activity_id_raises(plans, activity_id)
           THEN /\ ans' = [this EXCEPT !.raised = TRUE]
                /\ cache' = [cache EXCEPT !.plans = Put0(@, date, plans)]
           ELSE LET plan == get_plan_by_activity_id(plans, order,
                                                    activity_id)
                IN  /\ ans' = [this EXCEPT !.value = plan]
                    /\ cache' = [cache EXCEPT
                                    !.plans = Put0(@, date, plans),
                                    !.byid = Put0(@, key, plan)]
        /\ UNCHANGED <<planFiles, actsFrame>>

NextActs ==
    \/ \E src \in Sources, date \in PullDates, activities \in Pulled :
           ActsWritePlan(src, date, activities)
    \/ \E date \in PullDates : ActsGetPlans(date)
    \/ \E date \in PullDates, order \in Orders(Sources) \cup Orders({"local"})
                                          \cup Orders({"jira"}) \cup {<<>>} :
           ActsGetActivities(date, order)
    \/ \E id \in ActivityIds, date \in PullDates,
          order \in Orders(Sources) \cup Orders({"local"})
                      \cup Orders({"jira"}) \cup {<<>>} :
           ActsGetPlanByActivityId(id, date, order)

SpecActs == InitActs /\ [][NextActs]_vars

(***************************************************************************)
(* Claims about the plan lookups (SpecActs).                               *)
(***************************************************************************)
\* Two plans of different sources hold an entry with the same id.
Collision(plans) ==
    \E s1, s2 \in DOMAIN plans :
        /\ s1 # s2
        /\ \E id \in ActivityIds :
               has_activity(plans[s1], id) /\ has_activity(plans[s2], id)

\* The answers get_activities can give for the plan files now on disk.
FreshActivities(date) ==
    LET fresh == get_plans(planFiles, date)
    IN  {get_activities(fresh, order) : order \in Orders(DOMAIN fresh)}

\* C12 (as claimed): when two plans of different sources valid on D hold an
\* entry with the same id, get_activities(D) fails with a collision error
\* and returns no map.
C12_CollisionFails ==
    (/\ ans.op = "get_activities"
     /\ ans.plans = get_plans(planFiles, ans.date)
     /\ Collision(ans.plans)) => ans.raised

\* C19 (as claimed): the answer of get_plans(D), get_activities(D) and
\* get_plan_by_activity_id(id, D) is the one the plan files now on disk
\* give, whatever was asked before the last write_plan.
C19_NoStaleCache ==
    LET fresh == get_plans(planFiles, ans.date)
    IN  /\ ans.op = "get_plans" => ans.value = fresh
        /\ ans.op = "get_activities" => ans.value \in FreshActivities(ans.date)
        /\ ans.op = "get_plan_by_activity_id" =>
               IF plan_by_activity_id_raises(fresh, ans.id) THEN ans.raised
               ELSE /\ ~ans.raised
                    /\ \E order \in Orders(DOMAIN fresh) :
                           ans.value = get_plan_by_activity_id(
                                           fresh, order, ans.id)

(***************************************************************************)
(* faff/cli.py and faff_cli/log.py: `log refresh` and `log edit`, and      *)
(* start and stop, run one at a time on a log file the user has edited by  *)
(* hand. Nothing checks what the file holds: Log.from_dict builds the Log  *)
(* from whatever entries it finds.                                         *)
(***************************************************************************)
\* The wall-clock minutes of the day the clock can reach.
Minutes == {format_time(t) : t \in Instants}

\* An entry as the user can type it.
HandEntries ==
    [activity : {"a1"}, start : Minutes, end : Minutes \cup {NoEnd},
     note : {None}]

\* The documents the user can leave in the file: any entries, in any order.
HandDocs ==
    UNION {{<<[date |-> Today, timezone |-> "UTC", summary |-> <<>>,
               timeline |-> tl]>> : tl \in [1..n -> HandEntries]}
              : n \in 0..MaxLen}

InitEdit ==
    /\ ActsIdle
    /\ CompileIdle
    /\ RootIdle
    /\ MoreIdle
    /\ log = EmptyLog
    /\ prev = EmptyLog
    /\ call = NoCall
    /\ now \in {0, MaxNow}
    /\ logFile \in {NoFile} \cup {[exists |-> TRUE, doc |-> doc] :
                                      doc \in HandDocs}
    /\ planFiles = {}
    /\ got = NoQuery
    /\ planDocs = <<>>
    /\ logDocs = <<>>
    /\ ed = NoEdit
    /\ base = NoFile
    /\ procs = NoProcs

\* `log refresh`: ws.write_log(ws.get_log(date)).
Refresh ==
    LET l == get_log(logFile, Activities)
    IN  /\ prev' = l
        /\ log' = l
        /\ call' = [NoCall EXCEPT !.op = "refresh"]
        /\ logFile' = written(l)
        /\ UNCHANGED <<now, planVars, wsVars, intentVars, restVars>>

\* `log edit`: the file is rewritten from its own content, opened in the
\* editor, where the user leaves `doc`, and rewritten again (log.py: when
\* the text changed); with --force it is only opened in the editor, and
\* edit_file's read_text raises when there is no file.
LogEdit(doc, force) ==
    LET before == IF force THEN logFile
                  ELSE written(get_log(logFile, Activities))
        changed == before.doc # doc
        edited == [exists |-> TRUE, doc |-> doc]
        l == get_log(edited, Activities)
    IN  /\ prev' = l
        /\ log' = l
        /\ IF force /\ ~logFile.exists
           THEN /\ call' = [NoCall EXCEPT !.op = "edit", !.mode = "force",
                                          !.raised = TRUE]
                /\ logFile' = logFile
           ELSE /\ call' = [NoCall EXCEPT
                               !.op = "edit",
                               !.mode = IF force THEN "force" ELSE None]
                /\ logFile' = IF changed /\ ~force THEN written(l)
                              ELSE edited
        /\ UNCHANGED <<now, planVars, wsVars, intentVars, restVars>>

NextEdit ==
    \/ Refresh
    \/ \E doc \in HandDocs, force \in BOOLEAN : LogEdit(doc, force)
    \/ \E i \in Activities, n \in Notes : CmdStart("now", 0, i, n)
    \/ \E i \in Activities, n \in Notes : CmdStart("continue", 0, i, n)
    \/ \E t \in Instants, i \in Activities, n \in Notes :
           CmdStart("since", t, i, n)
    \/ CmdStop

SpecEdit == InitEdit /\ [][NextEdit]_vars

(***************************************************************************)
(* Claims about a log file edited by hand (SpecEdit).                      *)
(***************************************************************************)
\* The session invariants of a timeline: sorted by start, no end before
\* its start, at most one open session, and an open session only last.
ValidTimeline(tl) ==
    /\ SortedByStart(tl)
    /\ \A i \in 1..Len(tl) :
           /\ tl[i].end # NoEnd => tl[i].start <= tl[i].end
           /\ tl[i].end = NoEnd => i = Len(tl)

\* C13 (as claimed): a command that reads a log file whose timeline breaks
\* a session invariant fails: refresh, edit, start and stop get no Log for
\* it and write nothing.
C13_InvalidLogRejected ==
    (call.op # "none" /\ ~ValidTimeline(prev.timeline)) => call.raised

\* C14 (as claimed): reading a log file and writing it back (`log refresh`,
\* the rewrites of `log edit`) leaves the timeline entries found in the
\* file in the same order with the same content.
C14_RewriteKeepsTimeline ==
    (call.op \in {"refresh", "edit"} /\ ~call.raised) =>
        get_log(logFile, Activities).timeline = prev.timeline

\* C16 (as claimed), checked under SpecEdit, where today's log can hold
\* anything: in every mode of the start command the start instant handed on
\* is not later than now(), and a rejected start writes nothing.
C16_NoFutureStart ==
    call.op = "start" =>
        IF call.raised THEN get_log(logFile, Activities) = prev
        ELSE call.t <= now

\* C15 (as claimed), checked under SpecCli: the Log a start or stop command
\* handed to write_log is the Log that parsing the written text gives back:
\* same date and timezone, and every entry with the same activity, start,
\* end and note.
C15_RoundTrip ==
    (call.op \in {"start", "stop"} /\ ~call.raised) =>
        log_from_dict(format_log(log), Activities) = log

(***************************************************************************)
(* faff_cli/file_utils.py: find_faff_root and initialise_repo. The         *)
(* directories form a chain below "/": each directory down to MaxDepth has *)
(* one subdirectory, named "d". A directory is the sequence of names that  *)
(* leads to it; a path is what pathlib holds: whether it is absolute, and  *)
(* its components, ".." among them, which pathlib never resolves.          *)
(***************************************************************************)
MaxDepth == 2

Dirs == UNION {[1..n -> {"d"}] : n \in 0..MaxDepth}

Up == ".."

\* The name of a path that leads to no directory.
Missing == <<"?">>

\* VALID_DIRECTORY_STRUCTURE['.faff']
VALID_DIRECTORY_STRUCTURE ==
    {"config.toml", "intents", "keys", "plans", "plugins", "plugin_state",
     "logs", "timesheets"}

\* What a directory holds under the name .faff: nothing, a regular file, or
\* a directory with some entries.
NoFaff == [kind |-> "none", entries |-> {}]
FaffFile == [kind |-> "file", entries |-> {}]
FaffDir(entries) == [kind |-> "dir", entries |-> entries]

Layouts == [Dirs -> {NoFaff, FaffFile, FaffDir({}),
                     FaffDir(VALID_DIRECTORY_STRUCTURE)}]

Path(abs, parts) == [abs |-> abs, parts |-> parts]

Paths ==
    {Path(abs, parts) :
        abs \in BOOLEAN,
        parts \in UNION {[1..n -> {"d", Up}] : n \in 0..MaxDepth}}

RECURSIVE resolve(_, _)
\* The directory the operating system reaches from `at` along `parts`.
resolve(at, parts) ==
    IF at = Missing \/ parts = <<>> THEN at
    ELSE LET next == IF Head(parts) = Up
                     THEN (IF at = <<>> THEN <<>> ELSE Front(at))
                     ELSE Append(at, Head(parts))
         IN  resolve(IF next \in Dirs THEN next ELSE Missing, Tail(parts))

\* The directory a path names for a process whose working directory is wd.
physical(path, wd) == resolve(IF path.abs THEN <<>> ELSE wd, path.parts)

\* Path.parent: the path without its last component; "/" and "." are
\* their own parents.
parent(path) ==
    Path(path.abs, IF path.parts = <<>> THEN <<>> ELSE Front(path.parts))

\* Path.absolute(): the working directory is put in front of a relative
\* path; nothing is normalised.
absolute(path, wd) ==
    IF path.abs THEN path ELSE Path(TRUE, wd \o path.parts)

RECURSIVE find_faff_root(_, _, _)
\* FileSystemUtils.find_faff_root from possible_root; os.listdir raises
\* FileNotFoundError for a path that leads nowhere.
find_faff_root(fs, wd, possible_root) ==
    LET dir == physical(possible_root, wd)
        next_possible_root == absolute(parent(possible_root), wd)
    IN  IF dir = Missing
        THEN [raised |-> "FileNotFoundError", root |-> <<>>]
        ELSE IF fs[dir].kind = "dir"
        THEN [raised |-> None, root |-> possible_root]
        ELSE IF next_possible_root = possible_root
        THEN [raised |-> "FileNotFoundError", root |-> <<>>]
        ELSE find_faff_root(fs, wd, next_possible_root)

\* _create_directory_structure under the directory `dir`: an existing
\* entry is kept, and opening .faff/config.toml under a regular file
\* named .faff raises NotADirectoryError.
create_raises(fs, dir) == fs[dir].kind = "file"

create_directory_structure(fs, dir) ==
    [fs EXCEPT ![dir] = FaffDir(@.entries \cup VALID_DIRECTORY_STRUCTURE)]

\* The outcome of initialise_repo(target_dir, force): the exception raised,
\* if any, and the directory tree it leaves.
initialise_repo(fs, wd, target_dir, force) ==
    LET result == find_faff_root(fs, wd, target_dir)
        already_initialised == result.raised = None
    IN  IF already_initialised /\ result.root = target_dir
        THEN [raised |-> "FileExistsError", fs |-> fs]
        ELSE IF already_initialised /\ ~force
        THEN [raised |-> "NestedRepoExistsError", fs |-> fs]
        ELSE IF create_raises(fs, physical(target_dir, wd))
        THEN [raised |-> "NotADirectoryError", fs |-> fs]
        ELSE [raised |-> None,
              fs |-> create_directory_structure(
                         fs, physical(target_dir, wd))]

InitRoot ==
    /\ ActsIdle
    /\ CompileIdle
    /\ MoreIdle
    /\ log = EmptyLog
    /\ prev = EmptyLog
    /\ call = NoCall
    /\ now = 0
    /\ logFile = NoFile
    /\ planFiles = {}
    /\ got = NoQuery
    /\ planDocs = <<>>
    /\ logDocs = <<>>
    /\ ed = NoEdit
    /\ base = NoFile
    /\ procs = NoProcs
    /\ fsys \in Layouts
    /\ cwd \in Dirs
    /\ found = NoFind

\* Everything but the directory tree and the last call on it.
rootFrame ==
    <<logVars, now, logFile, planVars, wsVars, intentVars, actsVars,
      compileVars, moreVars>>

\* find_faff_root(search_start), for a path that names a directory.
FindRoot(search_start) ==
    LET result == find_faff_root(fsys, cwd, search_start)
    IN  /\ physical(search_start, cwd) # Missing
        /\ found' = [op |-> "find", path |-> search_start, force |-> FALSE,
                      raised |-> result.raised, root |-> result.root,
                      before |-> fsys]
        /\ UNCHANGED <<fsys, cwd, rootFrame>>

\* initialise_repo(target_dir, force), for a path that names a directory.
InitialiseRepo(target_dir, force) ==
    LET result == initialise_repo(fsys, cwd, target_dir, force)
    IN  /\ physical(target_dir, cwd) # Missing
        /\ found' = [op |-> "init", path |-> target_dir, force |-> force,
                      raised |-> result.raised, root |-> <<>>,
                      before |-> fsys]
        /\ fsys' = result.fs
        /\ UNCHANGED <<cwd, rootFrame>>

NextRoot ==
    \/ \E search_start \in Paths : FindRoot(search_start)
    \/ \E target_dir \in Paths, force \in BOOLEAN :
           InitialiseRepo(target_dir, force)

SpecRoot == InitRoot /\ [][NextRoot]_vars

(***************************************************************************)
(* Claims about find_faff_root and initialise_repo (SpecRoot).             *)
(***************************************************************************)
\* A directory and its ancestors: the directories on the way from "/".
SelfAndAncestors(dir) == {SubSeq(dir, 1, k) : k \in 0..Len(dir)}

\* Those of them that hold a .faff subdirectory.
Roots(fs, dir) == {a \in SelfAndAncestors(dir) : fs[a].kind = "dir"}

\* C17 (as claimed): find_faff_root(start) returns the nearest directory,
\* among start and its ancestors, that holds a .faff subdirectory, and
\* raises FileNotFoundError exactly when none of them holds one.
C17_NearestRoot ==
    found.op = "find" =>
        LET start == physical(found.path, cwd)
            roots == Roots(fsys, start)
        IN  IF roots = {} THEN found.raised = "FileNotFoundError"
            ELSE /\ found.raised = None
                 /\ physical(found.root, cwd) \in roots
                 /\ \A a \in roots :
                        Len(a) <= Len(physical(found.root, cwd))

\* C18 (as claimed): initialise_repo(target, force) raises FileExistsError
\* when target holds .faff, NestedRepoExistsError when it does not, an
\* ancestor does and force is false, creating nothing in both cases, and in
\* every other case creates .faff under target with all its entries.
C18_InitOutcomes ==
    found.op = "init" =>
        LET target == physical(found.path, cwd)
            nested == Roots(found.before, target) \ {target} # {}
        IN  IF found.before[target].kind = "dir"
            THEN found.raised = "FileExistsError" /\ fsys = found.before
            ELSE IF nested /\ ~found.force
            THEN found.raised = "NestedRepoExistsError"
                 /\ fsys = found.before
            ELSE /\ found.raised = None
                 /\ fsys[target].kind = "dir"
                 /\ VALID_DIRECTORY_STRUCTURE \subseteq fsys[target].entries
                 /\ \A other \in Dirs \ {target} :
                        fsys[other] = found.before[other]

(***************************************************************************)
(* faff_cli/timesheet.py: `timesheet compile`, step by step: for each      *)
(* compiler the log is compiled, the signing ids are gone through in       *)
(* order, and the timesheet is written.                                    *)
(***************************************************************************)
MaxCompilers == 2
MaxSigners == 2

\* The k-th configured compiler has the id k.
CompilerIds == 1..MaxCompilers
SigningIds == {"k1", "k2"}

\* compiler.config.get('signing_ids', [])
SigningLists == UNION {[1..n -> SigningIds] : n \in 0..MaxSigners}

Compiler(id, signing_ids) == [id |-> id, signing_ids |-> signing_ids]

\* ws.timesheets.audiences(): the configured compilers, in order.
Audiences ==
    UNION {{[k \in 1..n |-> Compiler(k, lists[k])] :
               lists \in [1..n -> SigningLists]} : n \in 0..MaxCompilers}

\* ws.timesheets.compile(log, compiler): a timesheet without signatures.
Timesheet(audience_id, is_empty) ==
    [audience_id |-> audience_id, is_empty |-> is_empty,
     signatures |-> <<>>]

sign_nothing(timesheet, signing_id) == timesheet

\* compiled_timesheet.sign(signing_id, bytes(key))
sign(timesheet, signing_id) ==
    [timesheet EXCEPT !.signatures = Append(@, signing_id)]

InitCompile ==
    /\ ActsIdle
    /\ RootIdle
    /\ MoreIdle
    /\ log = EmptyLog
    /\ prev = EmptyLog
    /\ call = NoCall
    /\ now = 0
    /\ logFile = NoFile
    /\ planFiles = {}
    /\ got = NoQuery
    /\ planDocs = <<>>
    /\ logDocs = <<>>
    /\ ed = NoEdit
    /\ base = NoFile
    /\ procs = NoProcs
    /\ \E compilers \in Audiences, identities \in SUBSET SigningIds :
           cfg = [compilers |-> compilers, identities |-> identities]
    /\ run = [NoRun EXCEPT !.pc = "next", !.i = 1]

\* Everything but the run of `timesheet compile`.
compileFrame ==
    <<logVars, now, logFile, planVars, wsVars, intentVars, actsVars,
      rootVars, cfg, moreVars>>

\* `for compiler in compilers`: the next compiler's timesheet is compiled
\* (with or without sessions in it), or the loop and the command end.
CompileNext(is_empty) ==
    /\ run.pc = "next"
    /\ IF run.i > Len(cfg.compilers)
       THEN run' = [run EXCEPT !.pc = "done"]
       ELSE LET compiler == cfg.compilers[run.i]
            IN  run' = [run EXCEPT
                    !.sheet = Timesheet(compiler.id, is_empty),
                    !.signed = FALSE,
                    !.j = 1,
                    !.pc = IF compiler.signing_ids # <<>> THEN "sign"
                           ELSE "write"]
    /\ UNCHANGED compileFrame

\* `for signing_id in signing_ids`: one signing id is looked up; the
\* timesheet is signed with it, or a warning is printed.
SignNext ==
    /\ run.pc = "sign"
    /\ LET signing_ids == cfg.compilers[run.i].signing_ids
           signing_id == signing_ids[run.j]
           last == run.j = Len(signing_ids)
       IN  IF signing_id \in cfg.identities
           THEN run' = [run EXCEPT
                    !.sheet = sign(@, signing_id),
                    !.signed = TRUE,
                    !.j = @ + 1,
                    !.pc = IF last THEN "write" ELSE "sign"]
           ELSE run' = [run EXCEPT
                    !.warnings = Append(@, <<run.i, signing_id>>),
                    !.j = @ + 1,
                    !.pc = IF last THEN "write" ELSE "sign"]
    /\ UNCHANGED compileFrame

\* ws.timesheets.write_timesheet(compiled_timesheet), in each of the three
\* branches (signed, no valid key, no signing ids).
WriteTimesheet ==
    /\ run.pc = "write"
    /\ run' = [run EXCEPT !.written = Append(@, run.sheet),
                          !.i = @ + 1,
                          !.pc = "next"]
    /\ UNCHANGED compileFrame

NextCompile ==
    \/ \E is_empty \in BOOLEAN : CompileNext(is_empty)
    \/ SignNext
    \/ WriteTimesheet

SpecCompile == InitCompile /\ [][NextCompile]_vars

(***************************************************************************)
(* Claims about `timesheet compile` (SpecCompile).                         *)
(***************************************************************************)
RECURSIVE Resolved(_, _)
\* The signing ids of a list whose identity is held, in the list's order.
Resolved(signing_ids, identities) ==
    IF signing_ids = <<>> THEN <<>>
    ELSE LET rest == Resolved(Front(signing_ids), identities)
         IN  IF Last(signing_ids) \in identities
             THEN Append(rest, Last(signing_ids))
             ELSE rest

\* C20: each compiler the loop has finished with has exactly one timesheet
\* written, in the compilers' order, carrying the signatures of exactly the
\* signing ids whose identity is found, in the configured order; a
\* timesheet is written only after its signing ids were gone through, and
\* the command ends only when every compiler's timesheet is written.
C20_CompileWritesOnce ==
    run.pc # "none" =>
        /\ Len(run.written) = run.i - 1
        /\ run.i <= Len(cfg.compilers) + 1
        /\ \A k \in 1..Len(run.written) :
               /\ run.written[k].audience_id = cfg.compilers[k].id
               /\ run.written[k].signatures =
                      Resolved(cfg.compilers[k].signing_ids, cfg.identities)
        /\ run.pc = "done" => Len(run.written) = Len(cfg.compilers)

\* C20 witness: the command ended after two compilers; the first one's
\* timesheet is empty and its first signing id has no identity, its second
\* has one and signed it; for both a timesheet was written.
C20_Witness ==
    /\ run.pc = "done"
    /\ Len(cfg.compilers) = 2
    /\ cfg.compilers[1].signing_ids = <<"k1", "k2">>
    /\ cfg.identities = {"k2"}
    /\ run.warnings = <<<<1, "k1">>>>
    /\ Len(run.written) = 2
    /\ run.written[1].is_empty
    /\ run.written[1].signatures = <<"k2">>

(***************************************************************************)
(* faff/core/workspace.py: now(), today() and the two session operations   *)
(* over several days. An instant is a tick of the clock (UTC); a timezone  *)
(* is its offset from UTC in ticks, a whole number of minutes; a date is   *)
(* the number of the day. Each date has its own log file.                  *)
(***************************************************************************)
MinutesPerDay == 2

TicksPerDay == MinutesPerDay * TicksPerMinute

\* UTC, and one minute either side of it.
Offsets == {0 - TicksPerMinute, 0, TicksPerMinute}

\* The calendar date of an instant in a timezone (day 1 starts at tick 0 UTC).
date_in(timezone, t) == (t + timezone + TicksPerDay) \div TicksPerDay

DayDates == {date_in(tz, t) : tz \in Offsets, t \in Instants}

Config(timezone, local, activities) ==
    [timezone |-> timezone, local |-> local, activities |-> activities]

\* Workspace.today(): pendulum.today() is taken in the system's local
\* timezone; the configured timezone is not passed.
today(c, clock) == date_in(c.local, clock)

one_log_path(date) == CHOOSE d \in DayDates : \A e \in DayDates : d <= e

\* FileSystem.log_path: the file <date>.toml.
log_path(date) == date

\* Workspace.get_log(date)
get_log_of(files, date, c) ==
    IF files[log_path(date)].exists
    THEN log_from_dict(files[log_path(date)].doc, c.activities)
    ELSE Log(date, c.timezone, <<>>, <<>>)

\* Workspace.write_log(log): the files once it has returned.
write_log(files, l) == [files EXCEPT ![log_path(l.date)] = written(l)]

always_known(activity_id, activities) == TRUE

\* `activity_id not in activities` is false (workspace.py line 122).
known(activity_id, activities) == activity_id \in activities

NoWsCall == [op |-> "none", activity_id |-> None, today |-> 0, t |-> 0,
             returned |-> None, before |-> <<>>]

InitDays ==
    /\ ActsIdle
    /\ CompileIdle
    /\ RootIdle
    /\ log = EmptyLog
    /\ prev = EmptyLog
    /\ call = NoCall
    /\ now = 0
    /\ logFile = NoFile
    /\ planFiles = {}
    /\ got = NoQuery
    /\ planDocs = <<>>
    /\ logDocs = <<>>
    /\ ed = NoEdit
    /\ base = NoFile
    /\ procs = NoProcs
    /\ nd = <<>>
    /\ flt = <<>>
    /\ fz = <<>>
    /\ \E timezone \in Offsets, local \in Offsets,
          activities \in SUBSET Activities :
           conf = Config(timezone, local, activities)
    /\ logFiles = [d \in DayDates |-> NoFile]
    /\ wcall = NoWsCall

\* Everything but the clock, the log files and the last call.
daysFrame ==
    <<logVars, logFile, planVars, wsVars, intentVars, actsVars, rootVars,
      compileVars, conf, nd, flt, fz>>

DaysTick ==
    /\ now < MaxNow
    /\ now' = now + 1
    /\ UNCHANGED <<logFiles, wcall, daysFrame>>

\* Workspace.start_timeline_entry(activity_id, note)
WsStartTimelineEntry(activity_id, note) ==
    LET day == today(conf, now)
        l == get_log_of(logFiles, day, conf)
        this == [NoWsCall EXCEPT !.op = "start", !.activity_id = activity_id,
                                 !.today = day, !.t = now,
                                 !.before = logFiles]
    IN  /\ Len(l.timeline) < MaxLen
        /\ IF ~known(activity_id, conf.activities)
           THEN /\ wcall' = [this EXCEPT !.returned = "not found"]
                /\ UNCHANGED logFiles
           ELSE /\ wcall' = [this EXCEPT !.returned = "Started"]
                /\ logFiles' = write_log(logFiles,
                                   start_timeline_entry(l, activity_id, now,
                                                        note))
        /\ UNCHANGED <<now, daysFrame>>

\* Workspace.stop_timeline_entry()
WsStopTimelineEntry ==
    LET target_date == today(conf, now)
        l == get_log_of(logFiles, target_date, conf)
        this == [NoWsCall EXCEPT !.op = "stop", !.today = target_date,
                                 !.t = now, !.before = logFiles]
    IN  /\ IF active_timeline_entry(l) # <<>>
           THEN /\ wcall' = [this EXCEPT !.returned = "Stopped"]
                /\ logFiles' = write_log(logFiles,
                                   stop_active_timeline_entry(l, now))
           ELSE /\ wcall' = [this EXCEPT !.returned = "No ongoing"]
                /\ UNCHANGED logFiles
        /\ UNCHANGED <<now, daysFrame>>

NextDays ==
    \/ DaysTick
    \/ \E activity_id \in Activities, note \in Notes :
           WsStartTimelineEntry(activity_id, note)
    \/ WsStopTimelineEntry

SpecDays == InitDays /\ [][NextDays]_vars

(***************************************************************************)
(* Claims about the Workspace over several days (SpecDays).                *)
(***************************************************************************)
\* C21 (as claimed): the date today() gave a start or stop is the calendar
\* date of the instant now() gave it, in the configured timezone; so the
\* session a start appended lies on the date of the log it was written to.
C21_TodayIsDateOfNow ==
    wcall.op # "none" =>
        /\ wcall.today = date_in(conf.timezone, wcall.t)
        /\ wcall.returned = "Started" =>
               LET l == get_log_of(logFiles, wcall.today, conf)
               IN  date_in(conf.timezone, Last(l.timeline).start) = l.date

C29_UnknownActivityWritesNothing ==
    (wcall.op = "start" /\ wcall.activity_id \notin conf.activities) =>
        /\ wcall.returned = "not found"
        /\ logFiles = wcall.before

\* C29 witness: the start of an unknown activity was refused while today's
\* log had an open session, which is still open.
C29_Witness ==
    /\ wcall.op = "start"
    /\ wcall.activity_id \notin conf.activities
    /\ wcall.returned = "not found"
    /\ active_timeline_entry(get_log_of(logFiles, wcall.today, conf)) # <<>>

(***************************************************************************)
(* faff_cli/utils.py: resolve_natural_date. A date is the number of its    *)
(* day; day 0 is a Monday. An argument is None, a word, or the text of an  *)
(* ISO date.                                                               *)
(***************************************************************************)
MaxRefDays == 8

\* The reference dates: more than a week of them, a week after day 0.
RefDates == 8..(7 + MaxRefDays)

\* pendulum.MONDAY .. pendulum.SUNDAY
MONDAY == 0
TUESDAY == 1
WEDNESDAY == 2
THURSDAY == 3
FRIDAY == 4
SATURDAY == 5
SUNDAY == 6

\* The `weekdays` dict (utils.py lines 40-48).
weekdays ==
    [name \in {"monday", "tuesday", "wednesday", "thursday", "friday",
               "saturday", "sunday"} |->
        CASE name = "monday" -> MONDAY
          [] name = "tuesday" -> TUESDAY
          [] name = "wednesday" -> WEDNESDAY
          [] name = "thursday" -> THURSDAY
          [] name = "friday" -> FRIDAY
          [] name = "saturday" -> SATURDAY
          [] name = "sunday" -> SUNDAY]

\* Words as the user can type them, each with its lower-case form.
Typed ==
    {<<"today", "today">>, <<"Today", "today">>, <<"TODAY", "today">>,
     <<"yesterday", "yesterday">>, <<"Yesterday", "yesterday">>,
     <<"tomorrow", "tomorrow">>, <<"Tomorrow", "tomorrow">>,
     <<"monday", "monday">>, <<"Monday", "monday">>,
     <<"tuesday", "tuesday">>, <<"TUESDAY", "tuesday">>,
     <<"wednesday", "wednesday">>, <<"WednesDay", "wednesday">>,
     <<"thursday", "thursday">>, <<"friday", "friday">>,
     <<"Friday", "friday">>, <<"saturday", "saturday">>,
     <<"sunday", "sunday">>, <<"SUNDAY", "sunday">>,
     <<"someday", "someday">>}

\* str.lower()
lower(text) ==
    IF \E pair \in Typed : pair[1] = text
    THEN (CHOOSE pair \in Typed : pair[1] = text)[2]
    ELSE text

NoArg == [text |-> None, iso |-> 0]
Word(text) == [text |-> text, iso |-> 0]
IsoText(date) == [text |-> "YYYY-MM-DD", iso |-> date]

DateArgs ==
    {NoArg} \cup {Word(pair[1]) : pair \in Typed}
            \cup {IsoText(date) : date \in {1, 9}}

\* Date.day_of_week
day_of_week(date) == date % 7

subtract(date, days) == date - days

RECURSIVE previous_from(_, _)
\* The loop of Date.previous: `while dt.day_of_week != day_of_week`.
previous_from(dt, weekday) ==
    IF day_of_week(dt) = weekday THEN dt
    ELSE previous_from(subtract(dt, 1), weekday)

previous_or_same(date, weekday) == previous_from(date, weekday)

\* Date.previous(day_of_week): the search starts the day before.
previous(date, weekday) == previous_from(subtract(date, 1), weekday)

\* pendulum.parse(arg) raises for everything but the text of a date.
parse_raises(arg) == arg.text # "YYYY-MM-DD"

Returned(date) == [raised |-> FALSE, value |-> date]
Raised == [raised |-> TRUE, value |-> 0]

\* resolve_natural_date(today, arg). "tomorrow" has no branch: it is not a
\* key of `weekdays`, pendulum.parse rejects it, and the handler's
\* typer.BadParameter is itself a NameError (typer is not imported).
resolve_natural_date(today_date, arg) ==
    IF arg = NoArg \/ lower(arg.text) = "today" THEN Returned(today_date)
    ELSE IF lower(arg.text) = "yesterday"
    THEN Returned(subtract(today_date, 1))
    ELSE IF lower(arg.text) \in DOMAIN weekdays
    THEN Returned(previous(today_date, weekdays[lower(arg.text)]))
    ELSE IF parse_raises(arg) THEN Raised
    ELSE Returned(arg.iso)

NoDateCall == [called |-> FALSE, today |-> 0, arg |-> NoArg,
               result |-> Raised]

InitDate ==
    /\ ActsIdle
    /\ CompileIdle
    /\ RootIdle
    /\ log = EmptyLog
    /\ prev = EmptyLog
    /\ call = NoCall
    /\ now = 0
    /\ logFile = NoFile
    /\ planFiles = {}
    /\ got = NoQuery
    /\ planDocs = <<>>
    /\ logDocs = <<>>
    /\ ed = NoEdit
    /\ base = NoFile
    /\ procs = NoProcs
    /\ conf = <<>>
    /\ logFiles = <<>>
    /\ wcall = <<>>
    /\ flt = <<>>
    /\ fz = <<>>
    /\ nd = NoDateCall

\* A command resolves a date argument against ws.today().
ResolveNaturalDate(today_date, arg) ==
    /\ nd' = [called |-> TRUE, today |-> today_date, arg |-> arg,
              result |-> resolve_natural_date(today_date, arg)]
    /\ UNCHANGED <<logVars, now, logFile, planVars, wsVars, intentVars,
                   actsVars, rootVars, compileVars, daysVars, flt, fz>>

NextDate ==
    \E today_date \in RefDates, arg \in DateArgs :
        ResolveNaturalDate(today_date, arg)

SpecDate == InitDate /\ [][NextDate]_vars

(***************************************************************************)
(* Claims about resolve_natural_date (SpecDate).                           *)
(***************************************************************************)
WeekdayNames ==
    {"monday", "tuesday", "wednesday", "thursday", "friday", "saturday",
     "sunday"}

\* The position of a weekday name in the week, Monday first.
WeekdayNumber(name) ==
    CASE name = "monday" -> 0 [] name = "tuesday" -> 1
      [] name = "wednesday" -> 2 [] name = "thursday" -> 3
      [] name = "friday" -> 4 [] name = "saturday" -> 5
      [] name = "sunday" -> 6

IsWord(arg) == arg # NoArg /\ arg.text # "YYYY-MM-DD"

C23_NamedDates ==
    nd.called =>
        /\ nd.arg = NoArg => nd.result = Returned(nd.today)
        /\ (IsWord(nd.arg) /\ nd.arg.text = "today") =>
               nd.result = Returned(nd.today)
        /\ (IsWord(nd.arg) /\ nd.arg.text = "yesterday") =>
               nd.result = Returned(nd.today - 1)
        /\ (IsWord(nd.arg) /\ nd.arg.text = "tomorrow") =>
               nd.result = Returned(nd.today + 1)
        /\ nd.arg.text = "YYYY-MM-DD" => nd.result = Returned(nd.arg.iso)

(***************************************************************************)
(* faff/models/log.py: total_recorded_time, and the start-stop law         *)
(* (SpecLog).                                                              *)
(***************************************************************************)
duration_to_now(entry, clock) == clock - entry.start

\* The duration of one entry: up to pendulum.now for the open one.
duration(entry, clock) ==
    IF entry.end = NoEnd THEN clock - entry.start
    ELSE entry.end - entry.start

RECURSIVE SumDurations(_, _)
SumDurations(timeline, clock) ==
    IF timeline = <<>> THEN 0
    ELSE SumDurations(Front(timeline), clock)
             + duration(Last(timeline), clock)

\* Log.total_recorded_time()
total_recorded_time(l, clock) == SumDurations(l.timeline, clock)

\* The last two calls were a start at t on a Log L with no open session and
\* a stop at s >= t: prev is start(L, i, t) and log is stop(prev, s).
StartStopCase ==
    /\ call.op = "stop" /\ ~call.raised
    /\ prev.timeline # <<>>
    /\ LET L == [prev EXCEPT !.timeline = Front(@)]
           e == Last(prev.timeline)
       IN  /\ active_timeline_entry(L) = <<>>
           /\ \A i \in 1..Len(L.timeline) : L.timeline[i].end # NoEnd
           /\ e.end = NoEnd
           /\ prev = start_timeline_entry(L, e.activity, e.start, e.note)
           /\ call.t >= e.start

\* C24: start-stop law. For a Log L with no open session, a start at t
\* followed by a stop at s >= t yields a Log with no open session whose
\* total_recorded_time is total_recorded_time(L) + (s - t).
C24_StartStopLaw ==
    StartStopCase =>
        LET L == [prev EXCEPT !.timeline = Front(@)]
            e == Last(prev.timeline)
        IN  /\ log = stop_active_timeline_entry(prev, call.t)
            /\ \A i \in 1..Len(log.timeline) : log.timeline[i].end # NoEnd
            /\ total_recorded_time(log, now) =
                   total_recorded_time(L, now) + (call.t - e.start)

\* C24 witness: the law's case on a Log that already held a closed session
\* of positive length, with the stop strictly after the start.
C24_Witness ==
    /\ StartStopCase
    /\ Len(prev.timeline) = 2
    /\ prev.timeline[1].end > prev.timeline[1].start
    /\ call.t > Last(prev.timeline).start
    /\ total_recorded_time(log, now) > call.t - Last(prev.timeline).start

(***************************************************************************)
(* faff_cli/query.py: Filter.from_string. A string is the sequence of its  *)
(* symbols: a key word counts as one symbol, every other character as one. *)
(***************************************************************************)
MaxValueLen == 2

FilterKeys == {"alias", "role", "objective", "action", "subject"}

\* The characters a value is typed with.
ValueChars == {"v", "=", "~"}

FilterValues == UNION {[1..n -> ValueChars] : n \in 0..MaxValueLen}

\* The three operators as typed, and no operator at all.
Eq == <<"=">>
Tilde == <<"~">>
NotEq == <<"!", "=">>
TypedOperators == {Eq, Tilde, NotEq, <<>>}

\* The positions at which sep occurs in str.
Occurrences(str, sep) ==
    {i \in 1..(Len(str) - Len(sep) + 1) :
        SubSeq(str, i, i + Len(sep) - 1) = sep}

\* sep in str
contains(str, sep) == Occurrences(str, sep) # {}

\* str.split(sep, 1), for a str that contains sep.
split(str, sep) ==
    LET i == CHOOSE i \in Occurrences(str, sep) :
                 \A j \in Occurrences(str, sep) : i <= j
    IN  <<SubSeq(str, 1, i - 1), SubSeq(str, i + Len(sep), Len(str))>>

ValueError == [raised |-> TRUE, key |-> <<>>, operator |-> <<>>,
               value |-> <<>>]

\* Filter.__init__
Filter(key, operator, value) ==
    IF operator \notin {Eq, Tilde, NotEq} THEN ValueError
    ELSE IF ~(Len(key) = 1 /\ key[1] \in FilterKeys) THEN ValueError
    ELSE [raised |-> FALSE, key |-> key, operator |-> operator,
          value |-> value]

\* Filter.from_string: '=' is looked for first, then '~', then '!='.
from_string(filter_str) ==
    IF contains(filter_str, Eq)
    THEN Filter(split(filter_str, Eq)[1], Eq, split(filter_str, Eq)[2])
    ELSE IF contains(filter_str, Tilde)
    THEN Filter(split(filter_str, Tilde)[1], Tilde,
                split(filter_str, Tilde)[2])
    ELSE IF contains(filter_str, NotEq)
    THEN Filter(split(filter_str, NotEq)[1], NotEq,
                split(filter_str, NotEq)[2])
    ELSE ValueError

NoFilterCall == [called |-> FALSE, key |-> <<>>, operator |-> <<>>,
                 value |-> <<>>, result |-> ValueError]

InitFilter ==
    /\ ActsIdle
    /\ CompileIdle
    /\ RootIdle
    /\ log = EmptyLog
    /\ prev = EmptyLog
    /\ call = NoCall
    /\ now = 0
    /\ logFile = NoFile
    /\ planFiles = {}
    /\ got = NoQuery
    /\ planDocs = <<>>
    /\ logDocs = <<>>
    /\ ed = NoEdit
    /\ base = NoFile
    /\ procs = NoProcs
    /\ conf = <<>>
    /\ logFiles = <<>>
    /\ wcall = <<>>
    /\ nd = <<>>
    /\ fz = <<>>
    /\ flt = NoFilterCall

\* `faff query <key><operator><value>`: one filter string is parsed.
FromString(key, operator, value) ==
    /\ flt' = [called |-> TRUE, key |-> key, operator |-> operator,
               value |-> value,
               result |-> from_string(key \o operator \o value)]
    /\ UNCHANGED <<logVars, now, logFile, planVars, wsVars, intentVars,
                   actsVars, rootVars, compileVars, daysVars, nd, fz>>

NextFilter ==
    \E key \in FilterKeys \cup {"status"}, operator \in TypedOperators,
       value \in FilterValues :
        FromString(<<key>>, operator, value)

SpecFilter == InitFilter /\ [][NextFilter]_vars

(***************************************************************************)
(* Claims about Filter.from_string (SpecFilter).                           *)
(***************************************************************************)
\* A value typed without any operator character.
PlainValue(value) == \A i \in 1..Len(value) : value[i] = "v"

\* C25 (as claimed): for every valid key and each of the three forms
\* key=value, key~value and key!=value, from_string gives a Filter with the
\* text left of the operator as key, that operator, and the text right of
\* it as value.
C25_ParsesThreeForms ==
    (/\ flt.called
     /\ flt.key[1] \in FilterKeys
     /\ flt.operator \in {Eq, Tilde, NotEq}
     /\ PlainValue(flt.value)) =>
        flt.result = [raised |-> FALSE, key |-> flt.key,
                      operator |-> flt.operator, value |-> flt.value]

(***************************************************************************)
(* The chain of sessions the start and stop commands build (SpecCli).      *)
(***************************************************************************)
\* Every closed session ends no earlier than it starts, and every session
\* but the last has ended, no later than the next one starts.
Chain(tl) ==
    \A i \in 1..Len(tl) :
        /\ tl[i].end # NoEnd => tl[i].start <= tl[i].end
        /\ i < Len(tl) =>
               /\ tl[i].end # NoEnd
               /\ tl[i].end <= tl[i + 1].start

\* C26: from an empty log, after any start commands (--continue, --since
\* or default mode) and stop commands run one at a time under a clock that
\* never goes back, the sessions form a non-overlapping chain, in the Log
\* handed to write_log and in the Log read back from the file.
C26_NonOverlappingChain ==
    /\ Chain(log.timeline)
    /\ Chain(get_log(logFile, Activities).timeline)

\* C26 witness: a --continue start followed a stopped session of positive
\* length: the new session starts where the earlier one ended.
C26_Witness ==
    /\ call.op = "start" /\ call.mode = "continue" /\ ~call.raised
    /\ Len(log.timeline) = 2
    /\ log.timeline[1].start < log.timeline[1].end
    /\ log.timeline[1].end = log.timeline[2].start
    /\ log.timeline[2].start < now

(***************************************************************************)
(* The id of an edited intent (SpecIntent).                                *)
(***************************************************************************)
\* C28 (as claimed): after a confirmed edit the plan files still hold an
\* intent with the id that was edited, whatever the user typed, so the
\* sessions that carry this id still have a plan entry.
C28_IdUnchanged ==
    ed.outcome = "updated" =>
        /\ \E f \in DOMAIN planDocs :
               Matches(planDocs[f], ed.intent_id) # {}
        /\ \A f \in DOMAIN logDocs : \A i \in 1..Len(logDocs[f]) :
               logDocs[f][i].intent_id = ed.intent_id =>
                   \E g \in DOMAIN planDocs :
                       Matches(planDocs[g], ed.intent_id) # {}

(***************************************************************************)
(* faff_cli/ui/fuzzy_select.py: the closure variables of fuzzy_select and  *)
(* its key bindings. The choices are numbered 1..n; 0 stands for the line  *)
(* "Create new: <text>". Lists are indexed from 0 as in the code, so the   *)
(* element at index k of `matches` is matches[k + 1] here.                 *)
(***************************************************************************)
MaxChoices == 4

CreateNew == 0

\* shutil.get_terminal_size().lines
TerminalLines == {4, 8}

\* max(3, int(total * max_fraction)), with max_fraction = 0.5
max_rows_of(total) == IF total \div 2 > 3 THEN total \div 2 ELSE 3

\* What the buffer can hold: only blanks, the exact name of choice k, or
\* some other text.
Blank == [kind |-> "blank", choice |-> 0]
NameOf(k) == [kind |-> "name", choice |-> k]
OtherText == [kind |-> "other", choice |-> 0]

RECURSIVE Listed(_, _)
\* The members of a set of choices, in the order of `choices`.
Listed(n, set) ==
    IF n = 0 THEN <<>>
    ELSE IF n \in set THEN Append(Listed(n - 1, set), n)
    ELSE Listed(n - 1, set)

InMatches(item, matches) == \E i \in 1..Len(matches) : matches[i] = item

\* on_change: the new `matches` for the text, given the candidates whose
\* fzy score is positive.
on_change(n, create_new, text, scored) ==
    IF text.kind = "blank" THEN Listed(n, 1..n)
    ELSE LET hits == Listed(n, scored)
         IN  IF create_new /\ ~(text.kind = "name"
                                   /\ InMatches(text.choice, hits))
             THEN Append(hits, CreateNew)
             ELSE hits

Min(a, b) == IF a < b THEN a ELSE b
Max(a, b) == IF a > b THEN a ELSE b

\* matches[selected_idx] in Python: a negative index counts from the end.
index_raises(matches, idx) == idx >= Len(matches) \/ idx < 0 - Len(matches)

item_at(matches, idx) ==
    IF idx >= 0 THEN matches[idx + 1] ELSE matches[Len(matches) + idx + 1]

NoKey == "none"

InitFuzzy ==
    /\ ActsIdle
    /\ CompileIdle
    /\ RootIdle
    /\ log = EmptyLog
    /\ prev = EmptyLog
    /\ call = NoCall
    /\ now = 0
    /\ logFile = NoFile
    /\ planFiles = {}
    /\ got = NoQuery
    /\ planDocs = <<>>
    /\ logDocs = <<>>
    /\ ed = NoEdit
    /\ base = NoFile
    /\ procs = NoProcs
    /\ conf = <<>>
    /\ logFiles = <<>>
    /\ wcall = <<>>
    /\ nd = <<>>
    /\ flt = <<>>
    /\ \E n \in 0..MaxChoices, create_new \in BOOLEAN,
          total \in TerminalLines :
           fz = [choices |-> n, create_new |-> create_new,
                 max_rows |-> max_rows_of(total),
                 matches |-> Listed(n, 1..n),
                 selected_idx |-> 0, offset |-> 0,
                 running |-> TRUE, key |-> NoKey,
                 result |-> <<>>, raised |-> FALSE]

fuzzyFrame ==
    <<logVars, now, logFile, planVars, wsVars, intentVars, actsVars,
      rootVars, compileVars, daysVars, nd, flt>>

\* @kb.add("up")
KeyUp ==
    LET selected_idx == Max(0, fz.selected_idx - 1)
    IN  /\ fz.running
        /\ fz' = [fz EXCEPT
                     !.key = "up",
                     !.selected_idx = selected_idx,
                     !.offset = IF selected_idx < fz.offset
                                THEN selected_idx ELSE @]
        /\ UNCHANGED fuzzyFrame

\* @kb.add("down")
KeyDown ==
    LET selected_idx == Min(Len(fz.matches) - 1, fz.selected_idx + 1)
    IN  /\ fz.running
        /\ fz' = [fz EXCEPT
                     !.key = "down",
                     !.selected_idx = selected_idx,
                     !.offset = IF selected_idx >= fz.offset + fz.max_rows
                                THEN selected_idx - fz.max_rows + 1 ELSE @]
        /\ UNCHANGED fuzzyFrame

\* @kb.add("enter"): the application exits with the selection, or the
\* handler raises IndexError.
KeyEnter ==
    /\ fz.running
    /\ fz' = IF fz.selected_idx < Len(fz.matches)
             THEN IF index_raises(fz.matches, fz.selected_idx)
                  THEN [fz EXCEPT !.key = "enter", !.running = FALSE,
                                  !.raised = TRUE]
                  ELSE [fz EXCEPT
                           !.key = "enter", !.running = FALSE,
                           !.result = <<item_at(fz.matches,
                                                fz.selected_idx)>>]
             ELSE [fz EXCEPT !.key = "enter", !.running = FALSE]
    /\ UNCHANGED fuzzyFrame

\* buf.on_text_changed: the text in the buffer changed to `text`, for
\* which the candidates in `scored` have a positive fzy score (a candidate
\* equal to the text is among them).
TextChanged(text, scored) ==
    /\ fz.running
    /\ scored \subseteq 1..fz.choices
    /\ text.kind = "name" => text.choice \in scored
    /\ text.kind = "blank" => scored = {}
    /\ fz' = [fz EXCEPT
                 !.key = "text",
                 !.matches = on_change(fz.choices, fz.create_new, text,
                                       scored),
                 !.selected_idx = 0,
                 !.offset = 0]
    /\ UNCHANGED fuzzyFrame

NextFuzzy ==
    \/ KeyUp
    \/ KeyDown
    \/ KeyEnter
    \/ \E text \in {Blank, OtherText} \cup {NameOf(k) : k \in 1..MaxChoices},
          scored \in SUBSET (1..MaxChoices) :
           TextChanged(text, scored)

SpecFuzzy == InitFuzzy /\ [][NextFuzzy]_vars

(***************************************************************************)
(* Claims about fuzzy_select (SpecFuzzy).                                  *)
(***************************************************************************)
\* C30 (as claimed): after any up, down and text-change events the
\* selection index is in range: 0 <= selected_idx, selected_idx <
\* len(matches) when matches is not empty, and offset <= selected_idx <
\* offset + max_rows; and enter never indexes outside matches.
C30_SelectionInRange ==
    /\ 0 <= fz.selected_idx
    /\ fz.matches # <<>> => fz.selected_idx < Len(fz.matches)
    /\ fz.offset <= fz.selected_idx
    /\ fz.selected_idx < fz.offset + fz.max_rows
    /\ ~fz.raised
    /\ (fz.key = "enter" /\ fz.matches = <<>>) => fz.result = <<>>

====
